---- MODULE Spec2Model ----
(***************************************************************************)
(* Model of the question-answering backend: the /chat handler and          *)
(* chat_service (services/chat_service.py, api/chat_api.py), the history   *)
(* compressor build_history_text_with_token_limit, the hybrid-retrieval    *)
(* pipeline QARunnable.invoke (rag_chain/chain.py) and the relevance       *)
(* scorer get_rerank_scores (rerank/rerank_chain.py).                      *)
(*                                                                         *)
(* Representation of strings.                                              *)
(*  - A passage text is a record [id, len, toks]: its content label, its   *)
(*    length in characters (what Python's len() returns) and the number of *)
(*    words jieba.cut splits it into.  Two passage texts are equal exactly *)
(*    when the records are equal.                                          *)
(*  - A chat message content, a formatted history line and the history     *)
(*    text are sequences of tokens: count_tokens is the length of the      *)
(*    sequence, string concatenation is \o, and "" is << >>.               *)
(*  - A reply of the scoring model is a sequence of lexical items (labels, *)
(*    colons, white space, numbers, words), on which the regular           *)
(*    expression of get_rerank_scores is evaluated.  The labels of the     *)
(*    pattern are written in pinyin: "pingfen" (score), "liyou" (reason),  *)
(*    "fwcolon" is the full-width colon.                                   *)
(***************************************************************************)
EXTENDS Integers, Sequences, FiniteSets, TLC

VARIABLES
    histories,      \* the session store: session id -> list of stored turns
    pc,             \* position of the request being served
    req,            \* the request being served: handler, session_id
    query,          \* inputs["query"] of QARunnable.invoke
    chat_history,   \* inputs["chat_history"] of QARunnable.invoke
    vectordb,       \* the documents of the Chroma collection (texts, metadatas)
    threshold,      \* self.threshold
    merged_docs,    \* merged_docs of invoke
    reranked,       \* reranked of invoke
    filtered,       \* filtered of invoke
    context,        \* context of invoke: the pieces appended to it, in order
    selected_docs,  \* selected_docs of invoke
    llm_calls,      \* every call made to the language model by the request
    result,         \* the dict returned by invoke, or the exception it raised
    response,       \* what the handler last answered
    served,         \* number of requests accepted so far
    arg,            \* input of the function under check (function specifications)
    ret             \* its output

vars == <<histories, pc, req, query, chat_history, vectordb, threshold,
          merged_docs, reranked, filtered, context, selected_docs, llm_calls,
          result, response, served, arg, ret>>

-----------------------------------------------------------------------------
(* Bounds of the model.                                                    *)

MaxVec == 2
MaxBm == 1
MaxBatch == 2
MaxRequests == 2
MaxMergeVec == 1
MaxMergeLex == 6
MaxRerankDocs == 3
MaxScored == 4
MaxTurns == 3
MaxMsgsArg == 3
MaxTokensArg == 9

(* Program constants.                                                      *)

max_context_length == 2000
DefaultThreshold == 70
VectorK == 15
Bm25Keep == 5
TopN == 3
MAX_HISTORY_MSGS == 10
MAX_TOKENS == 1500
default_score == 0

-----------------------------------------------------------------------------
(* Generic helpers.                                                        *)

None == [none |-> TRUE]

Min(a, b) == IF a < b THEN a ELSE b

Max(a, b) == IF a > b THEN a ELSE b

\* Python's s[:n] for n >= 0
Take(s, n) == SubSeq(s, 1, Min(n, Len(s)))

\* Python's s[-n:] for n >= 0.  For n = 0 this is s[-0:] = s[0:], the whole list.
LastN(s, n) == IF n = 0 THEN s ELSE SubSeq(s, Max(1, Len(s) - n + 1), Len(s))

Reverse(s) == [i \in 1..Len(s) |-> s[Len(s) + 1 - i]]

\* dict.get(key, default)
DictGet(d, key, default) == IF key \in DOMAIN d THEN d[key] ELSE default

\* all sequences over S of length at most n
SeqsUpTo(S, n) == UNION {[1..k -> S] : k \in 0..n}

\* all sequences over S without repetition of length at most n
InjSeqsUpTo(S, n) ==
    {s \in SeqsUpTo(S, n) : \A i, j \in 1..Len(s) : s[i] = s[j] => i = j}

-----------------------------------------------------------------------------
(* Passages and documents.                                                 *)

Text(id, len, toks) == [id |-> id, len |-> len, toks |-> toks]

\* len(doc_text)
StrLen(t) == t.len

\* the "\n\n" appended after each passage
Separator == Text("\n\n", 2, 0)

\* " ".join(jieba.cut(text)): one space between consecutive words
Segmented(t) == IF t.toks <= 1 THEN t ELSE [t EXCEPT !.len = t.len + t.toks - 1]

Meta(name, article) == [source_name |-> name, source_text |-> article]

Document(content, meta) == [page_content |-> content, metadata |-> meta]

\* segmented_docs of __init__
SegmentedDocs(db) ==
    [i \in 1..Len(db) |-> Document(Segmented(db[i].page_content), db[i].metadata)]

\* vectordb.similarity_search(query, k=15): at most k distinct stored documents
SimilaritySearchResults(db) ==
    {[i \in 1..Len(ix) |-> db[ix[i]]] :
        ix \in InjSeqsUpTo(1..Len(db), Min(MaxVec, VectorK))}

\* self.bm25.invoke(query): distinct documents of the segmented corpus
Bm25Results(db) ==
    {[i \in 1..Len(ix) |-> SegmentedDocs(db)[ix[i]]] :
        ix \in InjSeqsUpTo(1..Len(db), MaxBm)}

-----------------------------------------------------------------------------
(* Step 3 of invoke: merge and deduplicate by page_content.                *)

RECURSIVE MergeLoopKeepAll(_, _, _)
MergeLoopKeepAll(docs, seen, merged) ==
    IF docs = <<>> THEN merged
    ELSE LET doc == Head(docs)
         IN  IF doc \notin seen
             THEN MergeLoopKeepAll(Tail(docs), seen \cup {doc}, Append(merged, doc))
             ELSE MergeLoopKeepAll(Tail(docs), seen, merged)

RECURSIVE MergeLoop(_, _, _)
MergeLoop(docs, seen, merged) ==
    IF docs = <<>> THEN merged
    ELSE LET doc == Head(docs)
         IN  IF doc.page_content \notin seen
             THEN MergeLoop(Tail(docs), seen \cup {doc.page_content},
                            Append(merged, doc))
             ELSE MergeLoop(Tail(docs), seen, merged)

MergeDocs(vector_docs, bm25_docs) ==
    MergeLoop(vector_docs \o Take(bm25_docs, Bm25Keep), {}, <<>>)

-----------------------------------------------------------------------------
(* get_rerank_scores: one model call per document, reply parsed with       *)
(*   pingfen[:fwcolon]?\s*(\d+(?:\.\d+)?)\s*[\r\n]+liyou[:fwcolon]?\s*(.+)  *)
(* under re.IGNORECASE | re.DOTALL.                                        *)

Lit(s) == [k |-> "lit", s |-> s, n |-> 0]

Num(n) == [k |-> "num", s |-> "", n |-> n]

IsColon(it) == it.k = "lit" /\ it.s \in {":", "fwcolon"}

IsNewline(it) == it.k = "lit" /\ it.s \in {"\r", "\n"}

IsSpace(it) == it.k = "lit" /\ it.s \in {" ", "\t", "\r", "\n"}

RECURSIVE SkipSpace(_, _)
SkipSpace(s, p) ==
    IF p <= Len(s) /\ IsSpace(s[p]) THEN SkipSpace(s, p + 1) ELSE p

RECURSIVE Strip(_)
Strip(s) ==
    IF s = <<>> THEN s
    ELSE IF IsSpace(Head(s)) THEN Strip(Tail(s))
    ELSE IF IsSpace(s[Len(s)]) THEN Strip(SubSeq(s, 1, Len(s) - 1))
    ELSE s

\* the match of the pattern that starts at position p, if there is one
MatchAt(s, p) ==
    LET p1 == p + 1
        p2 == IF p1 <= Len(s) /\ IsColon(s[p1]) THEN p1 + 1 ELSE p1
        p3 == SkipSpace(s, p2)
        p4 == SkipSpace(s, p3 + 1)
        p5 == p4 + 1
        p6 == IF p5 <= Len(s) /\ IsColon(s[p5]) THEN p5 + 1 ELSE p5
        ok == /\ s[p] = Lit("pingfen")
              /\ p3 <= Len(s) /\ s[p3].k = "num"
              /\ p4 > p3 + 1 /\ IsNewline(s[p4 - 1])
              /\ p4 <= Len(s) /\ s[p4] = Lit("liyou")
              /\ p5 <= Len(s)
    IN  IF ok
        THEN [matched |-> TRUE, score |-> s[p3].n,
              reason |-> Strip(SubSeq(s, IF p6 <= Len(s) THEN p6 ELSE p5, Len(s)))]
        ELSE [matched |-> FALSE, score |-> 0, reason |-> <<>>]

\* re.search: the leftmost match
ReSearch(s) ==
    LET hits == {p \in 1..Len(s) : MatchAt(s, p).matched}
    IN  IF hits = {} THEN [matched |-> FALSE, score |-> 0, reason |-> <<>>]
        ELSE MatchAt(s, CHOOSE p \in hits : \A q \in hits : p <= q)

default_reason == <<Lit("format not recognized")>>

exception_reason == <<Lit("invocation error")>>

Scored(score, doc, reason) == [score |-> score, doc |-> doc, reason |-> reason]

\* the body of the loop for one document; call is what chain.run did:
\* [raised |-> TRUE] or [raised |-> FALSE, response |-> the reply]
RerankOne(doc, call) ==
    IF call.raised THEN Scored(default_score, doc, exception_reason)
    ELSE LET match == ReSearch(call.response)
         IN  IF match.matched THEN Scored(match.score, doc, match.reason)
             ELSE Scored(default_score, doc, default_reason)

RECURSIVE RerankLoopAbort(_, _, _)
RerankLoopAbort(documents, calls, results) ==
    IF documents = <<>> THEN results
    ELSE IF Head(calls).raised THEN results
    ELSE RerankLoopAbort(Tail(documents), Tail(calls),
                         Append(results, RerankOne(Head(documents), Head(calls))))

RECURSIVE RerankLoop(_, _, _)
RerankLoop(documents, calls, results) ==
    IF documents = <<>> THEN results
    ELSE RerankLoop(Tail(documents), Tail(calls),
                    Append(results, RerankOne(Head(documents), Head(calls))))

\* calls[i] is the outcome of the i-th chain.run
get_rerank_scores(documents, calls) == RerankLoop(documents, calls, <<>>)

-----------------------------------------------------------------------------
(* Filtering: threshold, stable sort by score descending, top 3.           *)

\* sorted(..., reverse=True) is stable: equal scores keep their order
RECURSIVE InsertDesc(_, _)
InsertDesc(item, s) ==
    IF s = <<>> THEN <<item>>
    ELSE IF Head(s).score >= item.score THEN <<Head(s)>> \o InsertDesc(item, Tail(s))
    ELSE <<item>> \o s

RECURSIVE SortedDesc(_)
SortedDesc(s) ==
    IF s = <<>> THEN <<>>
    ELSE InsertDesc(s[Len(s)], SortedDesc(SubSeq(s, 1, Len(s) - 1)))

PassesStrict(item, thr) == item.score > thr

Passes(item, thr) == item.score >= thr

FilterTopNoThreshold(scored, thr) == Take(SortedDesc(scored), TopN)

FilterTop(scored, thr) ==
    Take(SortedDesc(SelectSeq(scored, LAMBDA item : Passes(item, thr))), TopN)

-----------------------------------------------------------------------------
(* Step 5 of invoke: context assembly under the character budget.          *)

RECURSIVE SumLen(_)
SumLen(pieces) ==
    IF pieces = <<>> THEN 0 ELSE StrLen(Head(pieces)) + SumLen(Tail(pieces))

\* content2metadata: a later document with the same text overwrites an earlier one
Content2Metadata(docs) ==
    [t \in {docs[i].page_content : i \in 1..Len(docs)} |->
        LET last == CHOOSE i \in 1..Len(docs) :
                        /\ docs[i].page_content = t
                        /\ \A j \in 1..Len(docs) : docs[j].page_content = t => j <= i
        IN  docs[last].metadata]

SelectedDoc(item, c2m) ==
    LET metadata == DictGet(c2m, item.doc, None)
    IN  [content |-> item.doc, score |-> item.score, reason |-> item.reason,
         source_name |-> DictGet(metadata, "source_name", ""),
         source_text |-> DictGet(metadata, "source_text", "")]

\* the for loop of lines 129-144, with its break
RECURSIVE AssembleLoop(_, _, _, _)
AssembleLoop(items, c2m, ctx, selected) ==
    IF items = <<>> THEN [context |-> ctx, selected_docs |-> selected]
    ELSE LET item == Head(items)
         IN  IF SumLen(ctx) + StrLen(item.doc) > max_context_length
             THEN [context |-> ctx, selected_docs |-> selected]
             ELSE AssembleLoop(Tail(items), c2m,
                               ctx \o <<item.doc, Separator>>,
                               Append(selected, SelectedDoc(item, c2m)))

Assemble(items, docs) == AssembleLoop(items, Content2Metadata(docs), <<>>, <<>>)

-----------------------------------------------------------------------------
(* Conversation turns and build_history_text_with_token_limit.             *)

Message(role, content) == [role |-> role, content |-> content]

HumanMessage(content) == [type |-> "human", content |-> content]

AIMessage(content) == [type |-> "ai", content |-> content]

\* len(encoding.encode(text))
count_tokens(text) == Len(text)

\* f"{role}: {msg.content}\n"
HistoryLine(msg) ==
    LET role == IF msg.type = "human" THEN "User" ELSE "Assistant"
    IN  <<role, ":">> \o msg.content \o <<"\n">>

RECURSIVE BuildLoop(_, _, _, _)
BuildLoop(msgs, max_tokens, history_text, total_tokens) ==
    IF msgs = <<>> THEN history_text
    ELSE LET line == HistoryLine(Head(msgs))
             line_tokens == count_tokens(line)
         IN  IF total_tokens + line_tokens > max_tokens
             THEN history_text
             ELSE BuildLoop(Tail(msgs), max_tokens, line \o history_text,
                            total_tokens + line_tokens)

build_history_text_with_token_limit(messages, max_msgs, max_tokens) ==
    BuildLoop(Reverse(LastN(messages, max_msgs)), max_tokens, <<>>, 0)

-----------------------------------------------------------------------------
(* The language model.                                                     *)

\* what one chain.run can do: raise, or return a reply
Raised == [raised |-> TRUE, response |-> <<>>]

Reply(r) == [raised |-> FALSE, response |-> r]

ScoreReply(n) ==
    Reply(<<Lit("pingfen"), Lit(":"), Lit(" "), Num(n), Lit("\n"),
            Lit("liyou"), Lit(":"), Lit(" "), Lit("because")>>)

\* the outcomes of a scoring call drawn in the pipeline
RerankCalls == {ScoreReply(85), ScoreReply(72), ScoreReply(40), Raised}

\* the outcomes of a generating call
GenerateCalls == {Reply(<<"answer">>), Raised}

Call(template, inputs) == [template |-> template, inputs |-> inputs]

RerankCall(question, doc) ==
    Call("rerank_prompt", [question |-> question, context |-> doc])

-----------------------------------------------------------------------------
(* QARunnable.invoke as a state machine:                                    *)
(*   retrieving -> scoring -> filtering -> answering | fallback -> done     *)

NoResult == [status |-> "none", value |-> None]

Returned(value) == [status |-> "returned", value |-> value]

Propagated(what) == [status |-> "raised", value |-> [exception |-> what]]

\* the no_use_reason of line 97 and of line 121, in English
NoDocumentsReason == "no documents retrieved"

NoRelevantReason == "no relevant knowledge or no citation needed"

\* lines 91-98
FallbackEmptyInputs(q, h) == [question |-> q]

\* lines 115-122
FallbackFilteredInputs(q, h) == [question |-> q, chat_history |-> h]

\* lines 150-154
AnswerInputs(c, q, h) == [context |-> c, question |-> q, chat_history |-> h]

FallbackResult(text, reason) ==
    [result |-> text, source_documents |-> <<>>, top_score |-> 0,
     used_knowledge |-> FALSE, no_use_reason |-> reason]

\* lines 146, 156-161
AnswerResult(text, selected) ==
    [result |-> text, source_documents |-> selected,
     top_score |-> IF selected # <<>> THEN selected[1].score ELSE 0,
     used_knowledge |-> TRUE]

\* lines 75-87 and the test of line 89
Retrieve ==
    /\ pc = "retrieving"
    /\ \E vector_docs \in SimilaritySearchResults(vectordb),
          bm25_docs \in Bm25Results(vectordb) :
          /\ merged_docs' = MergeDocs(vector_docs, bm25_docs)
          /\ pc' = IF merged_docs' = <<>> THEN "fallback_empty" ELSE "scoring"
    /\ UNCHANGED <<histories, req, query, chat_history, vectordb, threshold,
                   reranked, filtered, context, selected_docs, llm_calls,
                   result, response, served, arg, ret>>

\* lines 90-98
FallbackEmpty ==
    /\ pc = "fallback_empty"
    /\ \E gen \in GenerateCalls :
          /\ llm_calls' = Append(llm_calls,
                 Call("fallback_prompt", FallbackEmptyInputs(query, chat_history)))
          /\ result' = IF gen.raised THEN Propagated("generate")
                       ELSE Returned(FallbackResult(gen.response, NoDocumentsReason))
    /\ pc' = "done"
    /\ UNCHANGED <<histories, req, query, chat_history, vectordb, threshold,
                   merged_docs, reranked, filtered, context, selected_docs,
                   response, served, arg, ret>>

\* lines 101-102
Score ==
    /\ pc = "scoring"
    /\ LET raw_docs == [i \in 1..Len(merged_docs) |-> merged_docs[i].page_content]
       IN  \E calls \in [1..Len(raw_docs) -> RerankCalls] :
              /\ reranked' = get_rerank_scores(raw_docs, calls)
              /\ llm_calls' = llm_calls \o
                     [i \in 1..Len(raw_docs) |-> RerankCall(query, raw_docs[i])]
    /\ pc' = "filtering"
    /\ UNCHANGED <<histories, req, query, chat_history, vectordb, threshold,
                   merged_docs, filtered, context, selected_docs, result,
                   response, served, arg, ret>>

\* lines 105-113 and 125-144
Filter ==
    /\ pc = "filtering"
    /\ filtered' = FilterTop(reranked, threshold)
    /\ IF filtered' = <<>>
       THEN /\ pc' = "fallback_filtered"
            /\ UNCHANGED <<context, selected_docs>>
       ELSE LET built == Assemble(filtered', merged_docs)
            IN  /\ context' = built.context
                /\ selected_docs' = built.selected_docs
                /\ pc' = "answering"
    /\ UNCHANGED <<histories, req, query, chat_history, vectordb, threshold,
                   merged_docs, reranked, llm_calls, result, response, served,
                   arg, ret>>

\* lines 114-122
FallbackFiltered ==
    /\ pc = "fallback_filtered"
    /\ \E gen \in GenerateCalls :
          /\ llm_calls' = Append(llm_calls,
                 Call("fallback_prompt", FallbackFilteredInputs(query, chat_history)))
          /\ result' = IF gen.raised THEN Propagated("generate")
                       ELSE Returned(FallbackResult(gen.response, NoRelevantReason))
    /\ pc' = "done"
    /\ UNCHANGED <<histories, req, query, chat_history, vectordb, threshold,
                   merged_docs, reranked, filtered, context, selected_docs,
                   response, served, arg, ret>>

\* lines 146-161
Answer ==
    /\ pc = "answering"
    /\ \E gen \in GenerateCalls :
          /\ llm_calls' = Append(llm_calls,
                 Call("legal_prompt", AnswerInputs(context, query, chat_history)))
          /\ result' = IF gen.raised THEN Propagated("generate")
                       ELSE Returned(AnswerResult(gen.response, selected_docs))
    /\ pc' = "done"
    /\ UNCHANGED <<histories, req, query, chat_history, vectordb, threshold,
                   merged_docs, reranked, filtered, context, selected_docs,
                   response, served, arg, ret>>

NextInvoke ==
    \/ Retrieve
    \/ FallbackEmpty
    \/ Score
    \/ Filter
    \/ FallbackFiltered
    \/ Answer

-----------------------------------------------------------------------------
(* The states after construction.                                          *)

Sessions == {"s1"}

NoRequest == [handler |-> "none", session_id |-> "none", messages |-> <<>>]

NoResponse == [kind |-> "none", exc |-> [type |-> "none", status_code |-> 0, detail |-> <<>>], body |-> None]

\* a knowledge base whose passages lie around the character budget; the first
\* two are the same line found in two files
InvokeStore ==
    << Document(Text("a", 1998, 1), Meta("law1", "art1")),
       Document(Text("a", 1998, 1), Meta("law2", "art1")),
       Document(Text("b", 2000, 2), Meta("law1", "art2")),
       Document(Text("c", 1, 1), Meta("law1", "art3")),
       Document(Text("d", 1, 1), Meta("law2", "art4")) >>

InitInvoke ==
    /\ histories = [s \in Sessions |-> <<>>]
    /\ pc = "retrieving"
    /\ req = NoRequest
    /\ query = <<"q">>
    /\ chat_history = <<"User", ":", "hi", "\n">>
    /\ vectordb = InvokeStore
    /\ threshold = DefaultThreshold
    /\ merged_docs = <<>>
    /\ reranked = <<>>
    /\ filtered = <<>>
    /\ context = <<>>
    /\ selected_docs = <<>>
    /\ llm_calls = <<>>
    /\ result = NoResult
    /\ response = NoResponse
    /\ served = 0
    /\ arg = None
    /\ ret = None

SpecInvoke == InitInvoke /\ [][NextInvoke]_vars

-----------------------------------------------------------------------------
(* The handlers: chat of api/chat_api.py and chat_service.                 *)

Exception(type, status_code, detail) ==
    [type |-> type, status_code |-> status_code, detail |-> detail]

NoException == Exception("none", 0, <<>>)

\* str(e)
Str(e) ==
    IF e.type = "HTTPException"
    THEN <<ToString(e.status_code), ": ">> \o e.detail
    ELSE e.detail

\* except Exception as e: raise HTTPException(500, f"Internal error: {str(e)}")
ExceptClause(e) == Exception("HTTPException", 500, <<"Internal error: ">> \o Str(e))

\* what leaves the handler when its body raises e
Escapes(handler, e) == IF handler = "chat" THEN ExceptClause(e) ELSE e

\* the exception raised at the missing-question check
NoQuestionError(handler) ==
    IF handler = "chat"
    THEN Exception("HTTPException", 400, <<"No user question provided.">>)
    ELSE Exception("ValueError", 0, <<"No user question provided.">>)

Failed(e) == [kind |-> "raised", exc |-> e, body |-> None]

Answered(body) == [kind |-> "ok", exc |-> NoException, body |-> body]

\* the turns the loop over req.messages adds to the history
RECURSIVE AddedTurns(_)
AddedTurns(messages) ==
    IF messages = <<>> THEN <<>>
    ELSE LET msg == Head(messages)
         IN  IF msg.role = "user"
             THEN <<HumanMessage(msg.content)>> \o AddedTurns(Tail(messages))
             ELSE IF msg.role = "assistant"
             THEN <<AIMessage(msg.content)>> \o AddedTurns(Tail(messages))
             ELSE AddedTurns(Tail(messages))

\* last_user_question after the loop: [is_none, content]
RECURSIVE LastUserQuestion(_)
LastUserQuestion(messages) ==
    IF messages = <<>> THEN [is_none |-> TRUE, content |-> <<>>]
    ELSE LET msg == messages[Len(messages)]
         IN  IF msg.role = "user" THEN [is_none |-> FALSE, content |-> msg.content]
             ELSE LastUserQuestion(SubSeq(messages, 1, Len(messages) - 1))

\* not last_user_question: None and "" are both false
Falsy(q) == q.is_none \/ q.content = <<>>

ChatResponse(value) ==
    [answer |-> DictGet(value, "result", <<>>),
     used_knowledge |-> DictGet(value, "used_knowledge", FALSE),
     top_score |-> DictGet(value, "top_score", 0),
     no_use_reason |-> DictGet(value, "no_use_reason", "None"),
     source_documents |-> DictGet(value, "source_documents", <<>>)]

\* the messages a request may carry
MessageKinds ==
    {Message("user", <<"q">>), Message("user", <<>>),
     Message("assistant", <<"x">>), Message("system", <<"y">>)}

\* the handler up to the call of qa_chain.invoke
Receive(handler) ==
    /\ pc = "idle"
    /\ served < MaxRequests
    /\ \E session_id \in Sessions, messages \in SeqsUpTo(MessageKinds, MaxBatch) :
          LET history == histories[session_id] \o AddedTurns(messages)
              last_user_question == LastUserQuestion(messages)
          IN  /\ histories' = [histories EXCEPT ![session_id] = history]
              /\ req' = [handler |-> handler, session_id |-> session_id,
                         messages |-> messages]
              /\ IF Falsy(last_user_question)
                 THEN /\ response' = Failed(Escapes(handler, NoQuestionError(handler)))
                      /\ pc' = "idle"
                      /\ UNCHANGED <<query, chat_history>>
                 ELSE /\ query' = last_user_question.content
                      /\ chat_history' = build_history_text_with_token_limit(
                                             history, MAX_HISTORY_MSGS, MAX_TOKENS)
                      /\ response' = NoResponse
                      /\ pc' = "retrieving"
    /\ served' = served + 1
    /\ UNCHANGED <<vectordb, threshold, merged_docs, reranked, filtered, context,
                   selected_docs, llm_calls, result, arg, ret>>

\* api/chat_api.py, lines 10-25
Chat == Receive("chat")

\* services/chat_service.py, lines 44-66
ChatService == Receive("chat_service")

\* the handler after qa_chain.invoke returned or raised
Respond ==
    /\ pc = "done"
    /\ IF result.status = "raised"
       THEN /\ response' = Failed(Escapes(req.handler,
                               Exception("Exception", 0, <<result.value.exception>>)))
            /\ UNCHANGED histories
       ELSE LET body == ChatResponse(result.value)
            IN  /\ histories' = [histories EXCEPT ![req.session_id] =
                                     Append(@, AIMessage(body.answer))]
                /\ response' = Answered(body)
    /\ pc' = "idle"
    /\ query' = <<>>
    /\ chat_history' = <<>>
    /\ merged_docs' = <<>>
    /\ reranked' = <<>>
    /\ filtered' = <<>>
    /\ context' = <<>>
    /\ selected_docs' = <<>>
    /\ llm_calls' = <<>>
    /\ result' = NoResult
    /\ UNCHANGED <<req, vectordb, threshold, served, arg, ret>>

Next ==
    \/ Chat
    \/ ChatService
    \/ Retrieve
    \/ FallbackEmpty
    \/ Score
    \/ Filter
    \/ FallbackFiltered
    \/ Answer
    \/ Respond

\* a knowledge base of one passage of two words
ChatStore == << Document(Text("a", 1998, 2), Meta("law1", "art1")) >>

Init ==
    /\ histories = [s \in Sessions |-> <<>>]
    /\ pc = "idle"
    /\ req = NoRequest
    /\ query = <<>>
    /\ chat_history = <<>>
    /\ vectordb = ChatStore
    /\ threshold = DefaultThreshold
    /\ merged_docs = <<>>
    /\ reranked = <<>>
    /\ filtered = <<>>
    /\ context = <<>>
    /\ selected_docs = <<>>
    /\ llm_calls = <<>>
    /\ result = NoResult
    /\ response = NoResponse
    /\ served = 0
    /\ arg = None
    /\ ret = None

Spec == Init /\ [][Next]_vars

-----------------------------------------------------------------------------
(* Specifications of single functions: Init draws the arguments, the       *)
(* action applies the function.                                            *)

InitFunction(position) ==
    /\ histories = [s \in Sessions |-> <<>>]
    /\ pc = position
    /\ req = NoRequest
    /\ query = <<>>
    /\ chat_history = <<>>
    /\ vectordb = <<>>
    /\ threshold = DefaultThreshold
    /\ merged_docs = <<>>
    /\ reranked = <<>>
    /\ filtered = <<>>
    /\ context = <<>>
    /\ selected_docs = <<>>
    /\ llm_calls = <<>>
    /\ result = NoResult
    /\ response = NoResponse
    /\ served = 0
    /\ ret = None

function_frame == <<histories, req, query, chat_history, vectordb, threshold,
                    merged_docs, reranked, filtered, context, selected_docs,
                    llm_calls, result, response, served, arg>>

(* Merging: two texts, one of them under two different metadata.           *)

MergeInputs ==
    {Document(Text("a", 3, 1), Meta("law1", "art1")),
     Document(Text("a", 3, 1), Meta("law2", "art1")),
     Document(Text("b", 5, 1), Meta("law1", "art2"))}

InitMerge ==
    /\ InitFunction("call")
    /\ arg \in [vector_docs : SeqsUpTo(MergeInputs, MaxMergeVec),
                bm25_docs : SeqsUpTo(MergeInputs, MaxMergeLex)]

ApplyMerge ==
    /\ pc = "call"
    /\ ret' = MergeDocs(arg.vector_docs, arg.bm25_docs)
    /\ pc' = "returned"
    /\ UNCHANGED function_frame

SpecMerge == InitMerge /\ [][ApplyMerge]_vars

(* Scoring: replies with the outcome the pattern has on them.              *)

RerankCases ==
    { \* pingfen: 85 \n liyou: because
      [call |-> ScoreReply(85), expect |-> "match", score |-> 85,
       reason |-> <<Lit("because")>>],
      \* full-width colons, no blank, CR LF, a reason of two lines
      [call |-> Reply(<<Lit("pingfen"), Lit("fwcolon"), Num(72), Lit("\r"), Lit("\n"),
                        Lit("liyou"), Lit("fwcolon"), Lit("line1"), Lit("\n"),
                        Lit("line2")>>),
       expect |-> "match", score |-> 72,
       reason |-> <<Lit("line1"), Lit("\n"), Lit("line2")>>],
      \* text before the score, no colons, blanks around the line breaks
      [call |-> Reply(<<Lit("Sure."), Lit(" "), Lit("pingfen"), Lit(" "), Num(70),
                        Lit(" "), Lit("\n"), Lit("\n"), Lit("liyou"), Lit(" "),
                        Lit("ok"), Lit(" "), Lit("\n")>>),
       expect |-> "match", score |-> 70, reason |-> <<Lit("ok")>>],
      \* no score at all
      [call |-> Reply(<<Lit("I"), Lit(" "), Lit("cannot"), Lit(" "), Lit("judge")>>),
       expect |-> "nomatch", score |-> 0, reason |-> <<>>],
      \* score and reason on one line
      [call |-> Reply(<<Lit("pingfen"), Lit(":"), Lit(" "), Num(85), Lit(" "),
                        Lit("liyou"), Lit(":"), Lit(" "), Lit("because")>>),
       expect |-> "nomatch", score |-> 0, reason |-> <<>>],
      \* a score that is no number
      [call |-> Reply(<<Lit("pingfen"), Lit(":"), Lit(" "), Lit("high"), Lit("\n"),
                        Lit("liyou"), Lit(":"), Lit(" "), Lit("because")>>),
       expect |-> "nomatch", score |-> 0, reason |-> <<>>],
      \* the call raises
      [call |-> Raised, expect |-> "error", score |-> 0, reason |-> <<>>] }

RerankTexts == {Text("a", 3, 1), Text("b", 5, 1)}

InitRerank ==
    /\ InitFunction("call")
    /\ arg \in {[documents |-> d, cases |-> c] :
                   d \in SeqsUpTo(RerankTexts, MaxRerankDocs),
                   c \in SeqsUpTo(RerankCases, MaxRerankDocs)}
    /\ Len(arg.documents) = Len(arg.cases)

ApplyRerank ==
    /\ pc = "call"
    /\ ret' = get_rerank_scores(arg.documents,
                  [i \in 1..Len(arg.cases) |-> arg.cases[i].call])
    /\ pc' = "returned"
    /\ UNCHANGED function_frame

SpecRerank == InitRerank /\ [][ApplyRerank]_vars

(* Filtering: scores around the threshold, one passage per score.          *)

FilterScores == {40, 70, 72, 85}

FilterThresholds == {DefaultThreshold, 72}

ScoredList(scores) ==
    [i \in 1..Len(scores) |->
        Scored(scores[i], Text(ToString(i), i, 1), <<Lit("because")>>)]

InitFilter ==
    /\ InitFunction("call")
    /\ arg \in [scores : SeqsUpTo(FilterScores, MaxScored),
                threshold : FilterThresholds]

ApplyFilter ==
    /\ pc = "call"
    /\ ret' = FilterTop(ScoredList(arg.scores), arg.threshold)
    /\ pc' = "returned"
    /\ UNCHANGED function_frame

SpecFilter == InitFilter /\ [][ApplyFilter]_vars

(* History compression: turns of no, one and two content tokens.           *)

HistoryTurns ==
    {HumanMessage(<<>>), HumanMessage(<<"a">>), AIMessage(<<"b">>),
     AIMessage(<<"c", "d">>)}

InitHistory ==
    /\ InitFunction("call")
    /\ arg \in [messages : SeqsUpTo(HistoryTurns, MaxTurns),
                max_msgs : 0..MaxMsgsArg,
                max_tokens : 0..MaxTokensArg]

ApplyHistory ==
    /\ pc = "call"
    /\ ret' = build_history_text_with_token_limit(arg.messages, arg.max_msgs,
                                                   arg.max_tokens)
    /\ pc' = "returned"
    /\ UNCHANGED function_frame

SpecHistory == InitHistory /\ [][ApplyHistory]_vars

-----------------------------------------------------------------------------
(* Properties.                                                             *)

ScoresOf(items) == [i \in 1..Len(items) |-> items[i].score]

\* C1: the context handed to the generating model, passages and separators
\* together, is never longer than max_context_length characters, and the
\* selected documents are the filtered candidates, in order, up to the first one
\* that does not fit: no later candidate follows the cutoff.
C1_ContextWithinBudget ==
    /\ SumLen(context) <= max_context_length
    /\ \A i \in 1..Len(llm_calls) :
          llm_calls[i].template = "legal_prompt"
              => SumLen(llm_calls[i].inputs.context) <= max_context_length
    /\ pc \in {"answering", "done"} /\ filtered # <<>> =>
          /\ Len(selected_docs) <= Len(filtered)
          /\ \A i \in 1..Len(selected_docs) :
                selected_docs[i].content = filtered[i].doc
          /\ Len(selected_docs) < Len(filtered) =>
                SumLen(context) + StrLen(filtered[Len(selected_docs) + 1].doc)
                    > max_context_length

\* C2: a result with used_knowledge = true has at least one source document,
\* and its top_score is the score of the first one, the highest score among the
\* scored candidates.
C2_UsedKnowledgeHasSources ==
    result.status = "returned" /\ result.value.used_knowledge =>
        /\ result.value.source_documents # <<>>
        /\ result.value.top_score = result.value.source_documents[1].score
        /\ \A i \in 1..Len(reranked) : reranked[i].score <= result.value.top_score

\* C3: an empty merged candidate list, and a scored list with no score at or
\* above the threshold, both end in the fallback result (used_knowledge false,
\* top_score 0, no source documents) with the reason of that condition, unless
\* the generating call itself raised; with no candidate the scorer is not called.
C3_EmptyConditionsFallBack ==
    LET empty == merged_docs = <<>>
        none_relevant == /\ merged_docs # <<>>
                         /\ \A i \in 1..Len(reranked) : reranked[i].score < threshold
        fallback(reason) ==
            \/ result = Propagated("generate")
            \/ /\ result.status = "returned"
               /\ result.value.used_knowledge = FALSE
               /\ result.value.top_score = 0
               /\ result.value.source_documents = <<>>
               /\ result.value.no_use_reason = reason
    IN  /\ pc = "done" /\ empty => fallback("no documents retrieved")
        /\ pc = "done" /\ none_relevant =>
              fallback("no relevant knowledge or no citation needed")
        /\ pc # "retrieving" /\ empty =>
              /\ pc \in {"fallback_empty", "done"}
              /\ \A i \in 1..Len(llm_calls) : llm_calls[i].template # "rerank_prompt"
        /\ pc \in {"fallback_filtered", "answering", "done"} /\ none_relevant =>
              /\ filtered = <<>>
              /\ pc # "answering"

\* C3 witness: every candidate was scored below the threshold and the fallback
\* result came back.
C3_Witness ==
    /\ pc = "done"
    /\ Len(merged_docs) >= 2
    /\ Len(reranked) = Len(merged_docs)
    /\ \E i \in 1..Len(reranked) : reranked[i].score = 40
    /\ \E i \in 1..Len(reranked) : reranked[i].reason = exception_reason
    /\ result.status = "returned"
    /\ result.value.no_use_reason = "no relevant knowledge or no citation needed"

\* C9: every call with the no-knowledge template binds the question and the
\* chat history of the request, and no context; a request that ended in the
\* fallback made exactly one such call.
C9_FallbackBindsHistory ==
    /\ \A i \in 1..Len(llm_calls) :
          llm_calls[i].template = "fallback_prompt" =>
              /\ DOMAIN llm_calls[i].inputs = {"question", "chat_history"}
              /\ llm_calls[i].inputs.question = query
              /\ llm_calls[i].inputs.chat_history = chat_history
    /\ pc = "done" /\ (merged_docs = <<>> \/ filtered = <<>>) =>
          Cardinality({i \in 1..Len(llm_calls) :
                          llm_calls[i].template = "fallback_prompt"}) = 1

HasUserTurn(messages) == \E i \in 1..Len(messages) : messages[i].role = "user"

\* C4: a /chat request whose batch holds no user turn is answered with a 4xx
\* error whose explanation is "No user question provided.", and the pipeline
\* is not entered for it.
C4_NoUserTurnIsClientError ==
    req.handler = "chat" /\ ~HasUserTurn(req.messages) =>
        /\ pc = "idle"
        /\ response.kind = "raised"
        /\ response.exc.status_code \in 400..499
        /\ response.exc.detail = <<"No user question provided.">>

\* C10: a request rejected for want of a user question leaves the stored
\* history of its session as it was.
C10_RejectedLeavesHistory ==
    [][ (/\ pc = "idle"
         /\ pc' = "idle"
         /\ served' = served + 1
         /\ ~HasUserTurn(req'.messages))
        => histories' = histories ]_vars

C5_RerankTotal ==
    pc = "returned" =>
        /\ Len(ret) = Len(arg.documents)
        /\ \A i \in 1..Len(arg.documents) :
              LET case == arg.cases[i]
              IN  /\ ret[i].doc = arg.documents[i]
                  /\ case.expect = "match" =>
                        ret[i].score = case.score /\ ret[i].reason = case.reason
                  /\ case.expect = "nomatch" =>
                        /\ ret[i].score = 0
                        /\ ret[i].reason = <<Lit("format not recognized")>>
                  /\ case.expect = "error" =>
                        /\ ret[i].score = 0
                        /\ ret[i].reason = <<Lit("invocation error")>>

\* C5 witness: the first call raised, the second reply had no score, the third
\* was parsed.
C5_Witness ==
    /\ pc = "returned"
    /\ Len(arg.documents) = 3
    /\ arg.cases[1].expect = "error"
    /\ arg.cases[2].expect = "nomatch"
    /\ arg.cases[3].expect = "match"
    /\ ret[3].score = 72
    /\ ret[1].reason # ret[2].reason

RECURSIVE Lines(_)
Lines(msgs) == IF msgs = <<>> THEN <<>> ELSE HistoryLine(Head(msgs)) \o Lines(Tail(msgs))

\* C8: the history text is the formatted lines, oldest first, of the k most
\* recent turns, with k <= max_msgs and at most max_tokens tokens, and k stops
\* only at the first line, newest to oldest, that would exceed max_tokens.
C8_HistorySuffixWithinLimits ==
    pc = "returned" =>
        LET n == Len(arg.messages)
            recent(k) == SubSeq(arg.messages, n - k + 1, n)
        IN  \E k \in 0..n :
               /\ ret = Lines(recent(k))
               /\ k <= arg.max_msgs
               /\ Len(ret) <= arg.max_tokens
               /\ \/ k = n
                  \/ k = arg.max_msgs
                  \/ Len(ret) + Len(HistoryLine(arg.messages[n - k])) > arg.max_tokens

====
